---- MODULE Spec2Model ----
(***************************************************************************)
(* The realtime session manager (class RealtimeClient) as a state machine. *)
(* Every handler of the class is one action; the asynchronous connect()    *)
(* is one action per await, awaits whose continuation reads no field being *)
(* merged with the next.                                                   *)
(*                                                                         *)
(* A field that references a browser object (peer connection, data         *)
(* channel, microphone stream, playback element) holds the state of the    *)
(* object it references.  An object that a later connect() replaced in its *)
(* field without closing it lives on: lostChannels and lostTrack say which *)
(* kinds of such objects exist.                                            *)
(*                                                                         *)
(* Response ids are opaque to the class (it stores one and never compares  *)
(* it), so one token stands for the id of the latest response.             *)
(* new AudioContext() succeeds.  The callbacks onMessage, onTranscript,    *)
(* onError, onAudioLevel and onNPCChange are all supplied, as at the only  *)
(* construction site (Voice.tsx:97-131).  conversationHistory and          *)
(* isReconnecting are written but never read by the class and are left     *)
(* out.  connect() is invoked again only when the previous invocation has  *)
(* returned.                                                               *)
(*                                                                         *)
(* A handler is an operator from the fields before it to the fields after  *)
(* it; the record it returns also carries out, the events it sent and the  *)
(* callbacks it made, in order, and ret, the value it returned.  A         *)
(* property of a handler is stated of the handler applied to the reachable *)
(* state.                                                                  *)
(***************************************************************************)
EXTENDS Integers, Sequences, FiniteSets, TLC

\* ---------------------------------------------------------------- bounds
MaxText == 2          \* characters of accumulated transcript
MaxOutputs == 2       \* output items of one response.done
MaxOrphans == 1       \* queued updateLevel callbacks with an overwritten id
MaxTimers == 1        \* queued setTimeout callbacks

\* ------------------------------------------------------------- constants
Personas == {"dm", "elara", "thorek", "grimjaw", "valdris", "malachar"}

\* Characters of a transcript: a blank, a letter of a live response, and a
\* letter of a response that cancelResponse had cancelled before the delta
\* carrying it arrived.  The code treats both letters alike.
SP == " "
Fresh == "a"
Stale == "x"

\* ------------------------------------------------------------- variables
VARIABLES
  apiKey,               \* settings.apiKey is non-empty
  peerConnection,       \* "null", or "open": the peer connection held
  dataChannel,          \* "null", or the readyState of the data channel held:
                        \* "connecting", "ready" (connecting, and its peer
                        \* connection has the remote description), "open",
                        \* "closed"
  audioElement,         \* "null", or the playback element held: "paused", "playing"
  mediaStream,          \* "null", or the track of the stream held: "off"
                        \* (enabled is false) or "on"
  isConnected,
  isListening,
  isGeneratingResponse,
  currentResponseId,    \* "null" or "id"
  currentResponseText,  \* sequence of characters
  audioContext,         \* TRUE when an AudioContext is held
  analyser,             \* TRUE when analyser and dataArray are set
  animationFrame,       \* "pending": the id of a queued updateLevel callback;
                        \* "null": null, or the id of one that has run
  currentActiveNPC,
  lostChannels,         \* readyStates ("ready", "open") that data channels
                        \* replaced in the field are in
  lostTrack,            \* the live tracks of streams replaced in the field:
                        \* "none", "off" (all disabled), "on" (one is enabled)
  orphanFrames,         \* queued updateLevel callbacks whose id is not animationFrame
  timers,               \* setTimeout callbacks queued by switchToNPCInSession
  connectPc,            \* where the running connect() is suspended, or "idle"
  cancelled,            \* cancelResponse has cancelled a response and neither
                        \* response.audio_transcript.done nor the next
                        \* response.created has come: deltas of the cancelled
                        \* response may still arrive
  received,             \* string deltas received since response.created
  streaming,            \* response.created came, and since then neither a
                        \* cancellation nor response.audio_transcript.done
  createdNPC            \* currentActiveNPC when the last response.created came

vars == <<apiKey, peerConnection, dataChannel, audioElement, mediaStream,
          isConnected, isListening, isGeneratingResponse, currentResponseId,
          currentResponseText, audioContext, analyser, animationFrame,
          currentActiveNPC, lostChannels, lostTrack, orphanFrames,
          timers, connectPc, cancelled, received, streaming, createdNPC>>

\* The fields as one record, with nothing sent and nothing returned yet.
Cur ==
  [apiKey |-> apiKey, peerConnection |-> peerConnection,
   dataChannel |-> dataChannel, audioElement |-> audioElement,
   mediaStream |-> mediaStream, isConnected |-> isConnected,
   isListening |-> isListening, isGeneratingResponse |-> isGeneratingResponse,
   currentResponseId |-> currentResponseId,
   currentResponseText |-> currentResponseText,
   audioContext |-> audioContext, analyser |-> analyser,
   animationFrame |-> animationFrame, currentActiveNPC |-> currentActiveNPC,
   lostChannels |-> lostChannels,
   lostTrack |-> lostTrack, orphanFrames |-> orphanFrames,
   timers |-> timers, connectPc |-> connectPc, cancelled |-> cancelled,
   received |-> received, streaming |-> streaming, createdNPC |-> createdNPC,
   out |-> <<>>, ret |-> FALSE]

\* The fields become those of s.
Apply(s) ==
  /\ apiKey' = s.apiKey
  /\ peerConnection' = s.peerConnection
  /\ dataChannel' = s.dataChannel
  /\ audioElement' = s.audioElement
  /\ mediaStream' = s.mediaStream
  /\ isConnected' = s.isConnected
  /\ isListening' = s.isListening
  /\ isGeneratingResponse' = s.isGeneratingResponse
  /\ currentResponseId' = s.currentResponseId
  /\ currentResponseText' = s.currentResponseText
  /\ audioContext' = s.audioContext
  /\ analyser' = s.analyser
  /\ animationFrame' = s.animationFrame
  /\ currentActiveNPC' = s.currentActiveNPC
  /\ lostChannels' = s.lostChannels
  /\ lostTrack' = s.lostTrack
  /\ orphanFrames' = s.orphanFrames
  /\ timers' = s.timers
  /\ connectPc' = s.connectPc
  /\ cancelled' = s.cancelled
  /\ received' = s.received
  /\ streaming' = s.streaming
  /\ createdNPC' = s.createdNPC

\* ------------------------------------------------- effects of a handler
\* One entry of out: an event put on the data channel (ev is its type) or a
\* callback made (ev is the callback).  clean records, for an event sent,
\* that no response was in flight in the fields at the moment of the send.
Entry(ev, arg, instr, tools, text, clean) ==
  [ev |-> ev, arg |-> arg, instr |-> instr, tools |-> tools, text |-> text,
   clean |-> clean]

NoInFlight(s) ==
  /\ ~s.isGeneratingResponse
  /\ s.currentResponseText = <<>>
  /\ s.currentResponseId = "null"

Event(s, type) == Entry(type, "", "", FALSE, <<>>, NoInFlight(s))
Callback(name, arg) == Entry(name, arg, "", FALSE, <<>>, FALSE)
Emit(s, e) == [s EXCEPT !.out = Append(@, e)]

\* sendEvent sending without the test of the data channel.
sendEventUntested(s, e) == Emit(s, e)

\* sendEvent: the event goes out only on an open data channel.
sendEvent(s, e) ==
  IF s.dataChannel = "open" THEN Emit(s, e) ELSE s

\* String.prototype.trim on a sequence of Chars.
RECURSIVE TrimStart(_)
TrimStart(t) ==
  IF t # <<>> /\ Head(t) = SP THEN TrimStart(Tail(t)) ELSE t

RECURSIVE TrimEnd(_)
TrimEnd(t) ==
  IF t # <<>> /\ t[Len(t)] = SP THEN TrimEnd(SubSeq(t, 1, Len(t) - 1)) ELSE t

Trim(t) == TrimEnd(TrimStart(t))

\* The instruction template the switch statement picks for npcType.
InstructionsFor(npcType) ==
  IF npcType \in Personas \ {"dm"} THEN npcType ELSE "dm"

\* The tool list given to every persona.
ToolsForAll(npcType) == TRUE

ToolsFor(npcType) == npcType = "dm"

\* Server-side voice activity detection switched on in the session.
TurnDetectionVad(npcType) == "server_vad"

\* session.turn_detection of the session.update for npcType (line 295).
TurnDetectionFor(npcType) == "null"

updateSessionInstructions(s, npcType) ==
  IF s.dataChannel # "open" THEN s
  ELSE sendEvent(s, Entry("session.update", npcType, InstructionsFor(npcType),
                          ToolsFor(npcType), <<TurnDetectionFor(npcType)>>,
                          NoInFlight(s)))

initializeSession(s) ==
  IF s.dataChannel # "open" THEN s
  ELSE updateSessionInstructions(
         Emit([s EXCEPT !.currentActiveNPC = "dm"], Callback("onNPCChange", "dm")),
         "dm")

\* updateLevel without the test of isListening.
updateLevelAlways(s) ==
  IF ~s.analyser
  THEN Emit(s, Callback("onAudioLevel", "0"))
  ELSE [Emit(s, Callback("onAudioLevel", "level")) EXCEPT
          !.orphanFrames = IF s.animationFrame = "pending" THEN @ + 1 ELSE @,
          !.animationFrame = "pending"]

\* One run of the updateLevel closure; "level" is the level the analyser gives.
updateLevel(s) ==
  IF ~s.analyser \/ ~s.isListening
  THEN Emit(s, Callback("onAudioLevel", "0"))
  ELSE [Emit(s, Callback("onAudioLevel", "level")) EXCEPT
          !.orphanFrames = IF s.animationFrame = "pending" THEN @ + 1 ELSE @,
          !.animationFrame = "pending"]

startAudioLevelMonitoring(s) ==
  IF ~s.analyser THEN s ELSE updateLevel(s)

stopAudioLevelMonitoring(s) ==
  Emit([s EXCEPT !.animationFrame = "null"], Callback("onAudioLevel", "0"))

cancelResponse(s) ==
  IF ~s.isGeneratingResponse THEN s
  ELSE LET sent == sendEvent(s, Event(s, "response.cancel")) IN
       Emit([sent EXCEPT !.isGeneratingResponse = FALSE,
                         !.currentResponseText = <<>>,
                         !.currentResponseId = "null",
                         !.cancelled = TRUE,
                         !.streaming = FALSE,
                         !.received = <<>>],
            Callback("onAudioLevel", "0"))

\* audioTrack.enabled = on, on the track of the stream held.
SetEnabled(s, on) ==
  IF s.mediaStream = "null" THEN s
  ELSE [s EXCEPT !.mediaStream = IF on THEN "on" ELSE "off"]

\* audioElement.pause(); audioElement.currentTime = 0
PausePlayback(s) ==
  IF s.audioElement = "null" THEN s
  ELSE [s EXCEPT !.audioElement = "paused"]

Init ==
  /\ apiKey \in BOOLEAN
  /\ peerConnection = "null"
  /\ dataChannel = "null"
  /\ audioElement = "null"
  /\ mediaStream = "null"
  /\ isConnected = FALSE
  /\ isListening = FALSE
  /\ isGeneratingResponse = FALSE
  /\ currentResponseId = "null"
  /\ currentResponseText = <<>>
  /\ audioContext = FALSE
  /\ analyser = FALSE
  /\ animationFrame = "null"
  /\ currentActiveNPC = "dm"
  /\ lostChannels = {}
  /\ lostTrack = "none"
  /\ orphanFrames = 0
  /\ timers = 0
  /\ connectPc = "idle"
  /\ cancelled = FALSE
  /\ received = <<>>
  /\ streaming = FALSE
  /\ createdNPC = "none"

\* ------------------------------------------------------ public methods
\* startListening() without the test of isListening.
startListeningAgain(s) ==
  IF s.isConnected /\ s.mediaStream # "null"
  THEN LET c == PausePlayback(cancelResponse(s))
           m == [SetEnabled(c, TRUE) EXCEPT !.isListening = TRUE]
           e == sendEvent(m, Event(m, "input_audio_buffer.clear"))
       IN  [startAudioLevelMonitoring(e) EXCEPT !.ret = TRUE]
  ELSE s

\* startListening(): returns false unless connected, not listening and
\* holding a stream.
startListening(s) ==
  IF s.isConnected /\ ~s.isListening /\ s.mediaStream # "null"
  THEN LET c == PausePlayback(cancelResponse(s))
           m == [SetEnabled(c, TRUE) EXCEPT !.isListening = TRUE]
           e == sendEvent(m, Event(m, "input_audio_buffer.clear"))
       IN  [startAudioLevelMonitoring(e) EXCEPT !.ret = TRUE]
  ELSE s

StartListening ==
  LET r == startListening(Cur) IN
    /\ r.orphanFrames <= MaxOrphans
    /\ Apply(r)

\* stopListening() without the test of isListening.
stopListeningAlways(s) ==
  IF s.isConnected /\ s.mediaStream # "null"
  THEN LET c == stopAudioLevelMonitoring(PausePlayback(cancelResponse(s)))
           m == [SetEnabled(c, FALSE) EXCEPT !.isListening = FALSE]
           e == sendEvent(m, Event(m, "input_audio_buffer.commit"))
       IN  sendEvent(e, Event(e, "response.create"))
  ELSE s

stopListening(s) ==
  IF s.isConnected /\ s.isListening /\ s.mediaStream # "null"
  THEN LET c == stopAudioLevelMonitoring(PausePlayback(cancelResponse(s)))
           m == [SetEnabled(c, FALSE) EXCEPT !.isListening = FALSE]
           e == sendEvent(m, Event(m, "input_audio_buffer.commit"))
       IN  sendEvent(e, Event(e, "response.create"))
  ELSE s

StopListening ==
  /\ TRUE
  /\ Apply(stopListening(Cur))

\* disconnect() calling this.audioContext.close() without testing the field:
\* with no AudioContext held the call throws and the method ends there.
disconnectUntested(s) ==
  IF ~s.audioContext
  THEN Emit(stopAudioLevelMonitoring(s), Callback("throw", "TypeError"))
  ELSE [stopAudioLevelMonitoring(s) EXCEPT
          !.audioContext = FALSE,
          !.dataChannel = "null",
          !.peerConnection = "null",
          !.mediaStream = "null",
          !.audioElement = "null",
          !.isConnected = FALSE,
          !.isListening = FALSE,
          !.isGeneratingResponse = FALSE]

\* disconnect(): close() and stop() end the objects held; the objects no
\* field references any more are not reached.
disconnect(s) ==
  [stopAudioLevelMonitoring(s) EXCEPT
     !.audioContext = FALSE,
     !.dataChannel = "null",
     !.peerConnection = "null",
     !.mediaStream = "null",
     !.audioElement = "null",
     !.isConnected = FALSE,
     !.isListening = FALSE,
     !.isGeneratingResponse = FALSE]

Disconnect ==
  /\ TRUE
  /\ Apply(disconnect(Cur))

\* getConnectionState
getConnectionState(s) ==
  [isConnected |-> s.isConnected, isListening |-> s.isListening,
   isGeneratingResponse |-> s.isGeneratingResponse]

\* updateSessionInstructions(npcType) called from outside the class, as
\* Voice.tsx switchToNPC does.
SwitchTargets == {"dm", "elara"}

UpdateSessionInstructions ==
  \E npcType \in SwitchTargets :
    /\ TRUE
    /\ Apply(updateSessionInstructions(Cur, npcType))

\* A queued updateLevel callback runs: the one whose id animationFrame holds
\* ("tracked") or one whose id was overwritten ("orphan").
Frames ==
  (IF animationFrame = "pending" THEN {"tracked"} ELSE {})
    \cup (IF orphanFrames > 0 THEN {"orphan"} ELSE {})

frameFire(s, which) ==
  updateLevel(IF which = "tracked"
              THEN [s EXCEPT !.animationFrame = "null"]
              ELSE [s EXCEPT !.orphanFrames = @ - 1])

FrameFire ==
  \E which \in Frames :
    LET r == frameFire(Cur, which) IN
      /\ r.orphanFrames <= MaxOrphans
      /\ Apply(r)

\* ------------------------------------------- handleDataChannelMessage
\* The message listener is added to every data channel connect() creates, so
\* a message arrives as long as any of them is open.
Delivering == dataChannel = "open" \/ "open" \in lostChannels

\* case 'response.created'
responseCreated(s) ==
  LET c == [s EXCEPT !.currentResponseId = "id",
                     !.currentResponseText = <<>>,
                     !.isGeneratingResponse = TRUE,
                     !.received = <<>>,
                     !.streaming = TRUE,
                     !.cancelled = FALSE,
                     !.createdNPC = s.currentActiveNPC]
      l == Emit(c, Callback("onAudioLevel", "0.7"))
  IN  \* audioElement.play() when paused
      IF l.audioElement = "paused" THEN [l EXCEPT !.audioElement = "playing"]
      ELSE l

ResponseCreated ==
  /\ Delivering
  /\ Apply(responseCreated(Cur))

\* The delta a message may carry: no string at all, the empty string, or a
\* string of one character.  "late" is a letter of a cancelled response.
Deltas == {"number", "empty", "blank", "letter", "late"}

DeltaText(d) ==
  CASE d = "blank" -> <<SP>>
    [] d = "letter" -> <<Fresh>>
    [] d = "late" -> <<Stale>>
    [] OTHER -> <<>>

\* The delta assigned to the accumulated text instead of appended to it.
audioTranscriptDeltaAssign(s, d) ==
  LET a == IF DeltaText(d) # <<>>
           THEN [s EXCEPT !.currentResponseText = DeltaText(d)]
           ELSE s
  IN  IF s.streaming THEN [a EXCEPT !.received = @ \o DeltaText(d)] ELSE a

\* case 'response.audio_transcript.delta'
audioTranscriptDelta(s, d) ==
  LET a == IF DeltaText(d) # <<>>
           THEN [s EXCEPT !.currentResponseText = @ \o DeltaText(d)]
           ELSE s
  IN  IF s.streaming THEN [a EXCEPT !.received = @ \o DeltaText(d)] ELSE a

\* The deltas that may arrive: those of the response being streamed, and
\* those of a response that was cancelled.
DeltasNow ==
  {d \in Deltas :
     /\ IF d = "late" THEN cancelled ELSE streaming
     /\ Len(currentResponseText) + Len(DeltaText(d)) <= MaxText
     /\ Len(received) + Len(DeltaText(d)) <= MaxText}

AudioTranscriptDelta ==
  /\ Delivering
  /\ \E d \in DeltasNow : Apply(audioTranscriptDelta(Cur, d))

\* case 'response.audio_transcript.done'
audioTranscriptDone(s) ==
  LET t == Trim(s.currentResponseText)
      m == IF t # <<>>
           THEN Emit(s, Entry("onMessage", s.currentActiveNPC, "", FALSE, t, FALSE))
           ELSE s
      c == [m EXCEPT !.currentResponseText = <<>>,
                     !.currentResponseId = "null",
                     !.isGeneratingResponse = FALSE,
                     !.streaming = FALSE,
                     !.cancelled = FALSE,
                     !.received = <<>>]
  IN  Emit(c, Callback("onAudioLevel", "0"))

AudioTranscriptDone ==
  /\ Delivering
  /\ Apply(audioTranscriptDone(Cur))

\* switchToNPCInSession(npcName, callId): nothing calls it.
switchToNPCInSession(s, npcName) ==
  LET n == Emit([s EXCEPT !.currentActiveNPC = npcName],
                Callback("onNPCChange", npcName))
      a == sendEvent(n, Entry("conversation.item.create", npcName, "", FALSE,
                              <<>>, NoInFlight(n)))
      u == updateSessionInstructions(a, npcName)
  IN  [u EXCEPT !.timers = @ + 1]

\* The callback of the timer set at lines 574-578: response.create.  No run
\* of the program queues it, line 507 never reaching line 574.
timerFire(s) == sendEvent(s, Event(s, "response.create"))

\* Line 507 calling the method the class does define.
switchNPCInSessionDefined(s, npcName) == switchToNPCInSession(s, npcName)

\* Line 507 calls this.switchNPCInSession, which the class does not define:
\* the call throws a TypeError, which the catch at line 509 logs.
switchNPCInSession(s, npcName) == s

\* An output item of response.done: a message, or a function call of
\* route_to_npc whose arguments are malformed JSON, lack npc_name, or name
\* npc_name.
RouteNames == {"dm", "elara", "bob"}
Items == {"message", "malformed", "missing"} \cup RouteNames

\* The loop body switching without comparing with the active persona.
RouteOutputUnguarded(s, item) ==
  IF item \in RouteNames THEN switchToNPCInSession(s, item) ELSE s

\* The body of the loop over response.output (lines 496-512).
RouteOutput(s, item) ==
  CASE item = "message" -> s       \* not a route_to_npc function call
    [] item = "malformed" -> s     \* JSON.parse throws, caught at line 509
    [] item = "missing" -> s       \* npcName is undefined
    [] OTHER -> IF item # s.currentActiveNPC
                THEN switchNPCInSession(s, item)
                ELSE s

RECURSIVE RouteOutputs(_, _)
RouteOutputs(s, outputs) ==
  IF outputs = <<>> THEN s
  ELSE RouteOutputs(RouteOutput(s, Head(outputs)), Tail(outputs))

OutputLists == UNION {[1..n -> Items] : n \in 0..MaxOutputs}

\* case 'response.done'
responseDone(s, outputs) ==
  RouteOutputs(Emit([s EXCEPT !.isGeneratingResponse = FALSE],
                    Callback("onAudioLevel", "0")),
               outputs)

\* What the loop over response.output makes of the states of S for the
\* lists of at most n items: S itself for the empty list, and what it makes
\* of the states one more item leads to.
RECURSIVE RoutedWithin(_, _)
RoutedWithin(S, n) ==
  IF n = 0 THEN S
  ELSE S \cup RoutedWithin({RouteOutput(x, item) : x \in S, item \in Items}, n - 1)

\* {responseDone(s, outputs) : outputs \in OutputLists}
responseDoneAll(s) == RoutedWithin({responseDone(s, <<>>)}, MaxOutputs)

ResponseDone ==
  /\ Delivering
  /\ \E r \in responseDoneAll(Cur) :
       /\ r.timers <= MaxTimers
       /\ Apply(r)

\* The message of an inbound error event, as a sequence of pieces of text:
\* Benign is the text of the cancellation warning, Other any text without
\* it, <<>> the empty string; NoMessage stands for an event without
\* error.message.
Benign == "Cancellation failed: no active response found"
Other == "Rate limit reached"
NoMessage == <<"undefined">>
UnknownError == <<"Unknown API error">>
ErrorMessages ==
  {NoMessage, <<>>, <<Benign>>, <<Other, Benign>>, <<Benign, Other>>, <<Other>>}

\* data.error?.message || 'Unknown API error'
ErrorMessageOf(message) ==
  IF message = NoMessage \/ message = <<>> THEN UnknownError ELSE message

\* errorMessage.includes('Cancellation failed: no active response found')
IncludesBenign(message) == \E k \in 1..Len(message) : message[k] = Benign

\* The filter comparing the whole message with the warning.
IsBenign(message) == message = <<Benign>>

\* The filter of lines 523-527.
IsFiltered(message) == IncludesBenign(message)

\* case 'error'
errorEvent(s, message) ==
  LET errorMessage == ErrorMessageOf(message) IN
    IF IsFiltered(errorMessage) THEN s
    ELSE Emit(s, Entry("onError", "api", "", FALSE, errorMessage, FALSE))

ErrorEvent ==
  /\ Delivering
  /\ LET c == Cur IN
       \E r \in {errorEvent(c, message) : message \in ErrorMessages} : Apply(r)

\* cases 'conversation.item.input_audio_transcription.completed' and
\* 'conversation.item.created': the transcript carried is absent, blank or
\* only music notes ("none"), or has text.
userTranscript(s, transcript) ==
  IF transcript = "text" THEN Emit(s, Callback("onTranscript", "text")) ELSE s

\* case 'conversation.item.created' for a user's input_audio item, and case
\* 'conversation.item.input_audio_transcription.completed'.
itemCreated(s, transcript) == userTranscript(s, transcript)
transcriptionCompleted(s, transcript) == userTranscript(s, transcript)

UserTranscript ==
  /\ Delivering
  /\ \E transcript \in {"none", "text"} : Apply(userTranscript(Cur, transcript))

\* A message that is empty, not a string, not JSON or without a string
\* type (lines 357-375 and the catch of 534-541), and the cases
\* speech_started, speech_stopped and default.
Malformed == {"empty", "not a string", "not JSON", "no type"}
Informational ==
  {"input_audio_buffer.speech_started", "input_audio_buffer.speech_stopped",
   "unknown type"}

\* The catch of lines 534-541 reporting the parse error.
otherMessageReported(s, kind) ==
  IF kind = "not JSON" THEN Emit(s, Callback("onError", "parse")) ELSE s

otherMessage(s, kind) ==
  CASE kind = "empty" -> s          \* return at line 359
    [] kind = "not a string" -> s   \* return at line 365
    [] kind = "not JSON" -> s       \* JSON.parse throws; the catch logs
    [] kind = "no type" -> s        \* return at line 374
    [] OTHER -> s                   \* the case logs and breaks

OtherMessage ==
  /\ Delivering
  /\ LET c == Cur IN
       \E r \in {otherMessage(c, kind) : kind \in Malformed \cup Informational} :
         Apply(r)

\* ------------------------------------------------------------ connect()
\* What the provider's non-success answer carries: its status and its body.
Status == "tokenResponse.status"
ErrorBody == "errorText"

\* The text passed to onError for each way a step of connect() fails, as a
\* sequence of pieces: the message of the Error thrown at lines 102, 108 and
\* 197, the literal of line 159, or the message of the exception of a
\* rejected await.
ErrorText(message) ==
  CASE message = "status" -> <<"OpenAI API error: ", Status, " - ", ErrorBody>>
    [] message = "invalid" -> <<"Invalid session response">>
    [] message = "webrtc" -> <<"Failed to establish WebRTC connection">>
    [] message = "microphone" ->
         <<"Microphone access required for voice interaction">>
    [] OTHER -> <<message>>

\* The catch block of connect(): apiKey is non-empty wherever it is reached.
ConnectFailed(s, message) ==
  [Emit(s, Entry("onError", message, "", FALSE, ErrorText(message), FALSE))
     EXCEPT !.connectPc = "idle"]

\* getVoiceForNPC
getVoiceForNPC(npcType) ==
  CASE npcType = "thorek" -> "echo"
    [] npcType = "elara" -> "shimmer"
    [] npcType = "grimjaw" -> "echo"
    [] npcType = "valdris" -> "verse"
    [] npcType = "malachar" -> "echo"
    [] OTHER -> "settings.voice"

\* connect() without the test of settings.apiKey.
connectUntested(s) ==
  [Emit(s, Callback("fetch sessions", getVoiceForNPC(s.currentActiveNPC)))
     EXCEPT !.connectPc = "token"]

\* connect() up to its first await, the credential exchange.
connect(s) ==
  IF ~s.apiKey
  THEN Emit(s, Callback("onError", "api key required"))
  ELSE [Emit(s, Callback("fetch sessions", getVoiceForNPC(s.currentActiveNPC)))
          EXCEPT !.connectPc = "token"]

Connect ==
  /\ connectPc = "idle"
  /\ Apply(connect(Cur))

\* The credential exchange ends: with a session secret, a non-success
\* status, a body without client_secret, or a network failure.  On success
\* the peer connection and the playback element are created and getUserMedia
\* is awaited.
connectToken(s, res) ==
  IF res = "ok"
  THEN [Emit(s, Callback("getUserMedia", "")) EXCEPT
          !.peerConnection = "open",
          !.audioElement = "paused",
          !.connectPc = "mic"]
  ELSE ConnectFailed(s, res)

ConnectToken ==
  \E res \in {"ok", "status", "invalid", "network"} :
    /\ connectPc = "token"
    /\ Apply(connectToken(Cur, res))

\* this.mediaStream = await getUserMedia(...); audioTrack.enabled = false
NewStream(s) ==
  [s EXCEPT !.lostTrack = IF s.mediaStream = "on" \/ @ = "on" THEN "on"
                          ELSE IF s.mediaStream = "off" THEN "off"
                          ELSE @,
            !.mediaStream = "off"]

\* setupAudioAnalysis
setupAudioAnalysis(s) ==
  IF s.mediaStream = "null" THEN s
  ELSE [s EXCEPT !.audioContext = TRUE, !.analyser = TRUE]

\* this.dataChannel = this.peerConnection.createDataChannel('oai-events')
NewChannel(s) ==
  [s EXCEPT !.lostChannels = IF s.dataChannel \in {"ready", "open"}
                             THEN @ \cup {s.dataChannel} ELSE @,
            !.dataChannel = "connecting"]

\* The catch of lines 157-161 without its return: after a denied microphone
\* the data channel is created and createOffer is awaited.
connectMicMuted(s, granted) ==
  IF ~granted
  THEN [NewChannel(Emit(s, Callback("onError", "microphone"))) EXCEPT
          !.connectPc = "offer"]
  ELSE IF s.peerConnection = "null"
  THEN ConnectFailed(NewStream(s), "microphone")
  ELSE [NewChannel(setupAudioAnalysis(NewStream(s))) EXCEPT !.connectPc = "offer"]

\* getUserMedia ends.  A TypeError of this.peerConnection.addTrack (the peer
\* connection is null after a disconnect) is caught by the same catch as a
\* denied microphone.  On success the data channel is created and
\* createOffer is awaited.
connectMic(s, granted) ==
  IF ~granted THEN ConnectFailed(s, "microphone")
  ELSE IF s.peerConnection = "null"
  THEN ConnectFailed(NewStream(s), "microphone")
  ELSE [NewChannel(setupAudioAnalysis(NewStream(s))) EXCEPT !.connectPc = "offer"]

ConnectMic ==
  \E granted \in BOOLEAN :
    /\ connectPc = "mic"
    /\ Apply(connectMic(Cur, granted))

\* createOffer ends, this.peerConnection.setLocalDescription is called and
\* ends, and the offer is posted to the provider.
connectOffer(s, ok) ==
  IF ok /\ s.peerConnection # "null"
  THEN [Emit(s, Callback("fetch realtime", "")) EXCEPT !.connectPc = "sdp"]
  ELSE ConnectFailed(s, IF ok THEN "TypeError" ELSE "offer")

ConnectOffer ==
  \E ok \in BOOLEAN :
    /\ connectPc = "offer"
    /\ Apply(connectOffer(Cur, ok))

\* The signaling exchange ends, the answer's text is read,
\* this.peerConnection.setRemoteDescription is called and ends.  With the
\* remote description set the data channel can open.
connectSdp(s, res) ==
  IF res = "ok" /\ s.peerConnection # "null"
  THEN [s EXCEPT !.dataChannel = "ready", !.connectPc = "idle"]
  ELSE ConnectFailed(s, CASE res = "ok" -> "TypeError"
                          [] res = "status" -> "webrtc"
                          [] OTHER -> res)

ConnectSdp ==
  \E res \in {"ok", "status", "network"} :
    /\ connectPc = "sdp"
    /\ Apply(connectSdp(Cur, res))

\* The 'open' listener (lines 167-173).
OpenListener(s) ==
  initializeSession([s EXCEPT !.isConnected = TRUE,
                              !.isListening = FALSE,
                              !.isGeneratingResponse = FALSE])

\* A data channel opens: the one held ("held") or one replaced in the field
\* ("lost"), of which more may be left to open.
Openings ==
  (IF dataChannel = "ready" THEN {"held"} ELSE {})
    \cup (IF "ready" \in lostChannels THEN {"lost"} ELSE {})

dataChannelOpen(s, which) ==
  OpenListener(IF which = "held"
               THEN [s EXCEPT !.dataChannel = "open"]
               ELSE [s EXCEPT !.lostChannels = @ \cup {"open"}])

DataChannelOpen ==
  \E which \in Openings :
    /\ TRUE
    /\ Apply(dataChannelOpen(Cur, which))

\* The transport closes the data channel held; the class listens to no
\* 'close' event.  (A replaced channel that closes only stops delivering.)
DataChannelClosed ==
  /\ dataChannel = "open"
  /\ Apply([Cur EXCEPT !.dataChannel = "closed"])

\* onconnectionstatechange with connectionState 'failed' (lines 129-134),
\* and the data channel's 'error' listener (lines 175-178).
\* The listeners starting a new connect() after reporting.
transportErrorRetry(s, what) == connect(Emit(s, Callback("onError", what)))

transportError(s, what) == Emit(s, Callback("onError", what))

TransportError ==
  \E what \in {"connection failed", "channel error"} :
    /\ peerConnection # "null"
    /\ what = "channel error" => dataChannel \notin {"null", "closed"}
    /\ Apply(transportError(Cur, what))

Next ==
  \/ Connect
  \/ ConnectToken
  \/ ConnectMic
  \/ ConnectOffer
  \/ ConnectSdp
  \/ DataChannelOpen
  \/ DataChannelClosed
  \/ TransportError
  \/ Disconnect
  \/ StartListening
  \/ StopListening
  \/ UpdateSessionInstructions
  \/ FrameFire
  \/ ResponseCreated
  \/ AudioTranscriptDelta
  \/ AudioTranscriptDone
  \/ ResponseDone
  \/ ErrorEvent
  \/ UserTranscript
  \/ OtherMessage

Spec == Init /\ [][Next]_vars

\* ------------------------------------------------------------ properties
\* What the handlers that can run in the current state return, each applied
\* to the current state; the handler of response.audio_transcript.done is
\* left to the caller.
Results ==
  LET c == Cur IN
    {startListening(c), stopListening(c), disconnect(c)}
      \cup {updateSessionInstructions(c, n) : n \in SwitchTargets}
      \cup {frameFire(c, w) : w \in Frames}
      \cup {dataChannelOpen(c, w) : w \in Openings}
      \cup (IF connectPc = "idle" THEN {connect(c)} ELSE {})
      \cup (IF connectPc = "token"
            THEN {connectToken(c, r) : r \in {"ok", "status", "invalid", "network"}}
            ELSE {})
      \cup (IF connectPc = "mic" THEN {connectMic(c, g) : g \in BOOLEAN} ELSE {})
      \cup (IF connectPc = "offer" THEN {connectOffer(c, g) : g \in BOOLEAN} ELSE {})
      \cup (IF connectPc = "sdp"
            THEN {connectSdp(c, r) : r \in {"ok", "status", "network"}}
            ELSE {})
      \cup (IF peerConnection # "null"
            THEN {transportError(c, w) : w \in {"connection failed", "channel error"}}
            ELSE {})
      \cup (IF Delivering
            THEN {responseCreated(c)}
                   \cup {otherMessage(c, k) : k \in Malformed \cup Informational}
                   \cup {audioTranscriptDelta(c, d) : d \in DeltasNow}
                   \cup responseDoneAll(c)
                   \cup {errorEvent(c, m) : m \in ErrorMessages}
                   \cup {userTranscript(c, x) : x \in {"none", "text"}}
            ELSE {})

\* The positions in o of the entries of kind ev.
At(o, ev) == {k \in 1..Len(o) : o[k].ev = ev}

\* The texts of the conversation turns in o, in order.
RECURSIVE Turns(_)
Turns(o) ==
  IF o = <<>> THEN <<>>
  ELSE (IF Head(o).ev = "onMessage" THEN <<Head(o).text>> ELSE <<>>)
         \o Turns(Tail(o))

\* r made no call of onMessage.
NoTurn(r) == Turns(r.out) = <<>>

\* Every turn r passed to onMessage has the persona of the last
\* response.created as its type.
LabelledAsCreated(r) ==
  \A k \in At(r.out, "onMessage") : r.out[k].arg = createdNPC

\* Every session.update r sent has the tool exactly when it is for 'dm'.
ToolsOnlyForNarrator(r) ==
  \A k \in At(r.out, "session.update") : r.out[k].tools <=> r.out[k].arg = "dm"

\* startListening would return true.
CanStartListening == isConnected /\ ~isListening /\ mediaStream # "null"

\* C1: in every reachable state the captured microphone track is enabled
\* if and only if isListening is true.
C1_MicGateIffListening == (mediaStream = "on") <=> isListening

\* C2: a response.done that carries a route_to_npc call naming a valid
\* persona other than the active one makes the client send the
\* acknowledgment, call onNPCChange for the new persona, send a
\* session.update for it, in this order, and queue the response.create.
C2_RouteSequence ==
  (Delivering /\ dataChannel = "open") =>
    \A npc \in (RouteNames \cap Personas) \ {currentActiveNPC} :
      LET r == responseDone(Cur, <<npc>>) IN
        /\ \E a \in At(r.out, "conversation.item.create") :
           \E c \in At(r.out, "onNPCChange") :
           \E u \in At(r.out, "session.update") :
             /\ a < c /\ c < u
             /\ r.out[a].arg = npc /\ r.out[c].arg = npc /\ r.out[u].arg = npc
        /\ r.timers = timers + 1

\* C3: a response.done with one route_to_npc call naming 'elara', received
\* while the active persona is 'dm', gives exactly one onNPCChange('elara'),
\* exactly one acknowledgment, exactly one response.create queued and no
\* conversation turn.
C3_RouteExactlyOnce ==
  (Delivering /\ dataChannel = "open" /\ currentActiveNPC = "dm") =>
    LET r == responseDone(Cur, <<"elara">>) IN
      /\ Cardinality({k \in At(r.out, "onNPCChange") : r.out[k].arg = "elara"}) = 1
      /\ Cardinality(At(r.out, "conversation.item.create")) = 1
      /\ r.timers = timers + 1
      /\ Turns(r.out) = <<>>

C5_CancelBeforeClear ==
  (CanStartListening /\ isGeneratingResponse) =>
    LET o == startListening(Cur).out IN
      /\ At(o, "response.cancel") # {}
      /\ \A k \in At(o, "input_audio_buffer.clear") :
           /\ o[k].clean
           /\ \E c \in At(o, "response.cancel") : c < k

\* C6: no turn passed to onMessage contains text of a response that
\* startListening has cancelled.
C6_NoCancelledText ==
  Delivering =>
    LET o == audioTranscriptDone(Cur).out IN
      \A k \in At(o, "onMessage") :
        \A j \in 1..Len(o[k].text) : o[k].text[j] # Stale

\* C7 as stated: a response that runs response.created, deltas and
\* response.audio_transcript.done without being cancelled gives exactly one
\* turn, whose text is the trimmed concatenation of the deltas.
C7_ExactlyOneTurn ==
  (Delivering /\ streaming) =>
    Turns(audioTranscriptDone(Cur).out) = <<Trim(received)>>

\* C7 amended: such a response gives exactly one turn, whose text is the
\* trimmed concatenation of the deltas received since response.created, when
\* that text is not empty, and no turn when it is empty; and no handler other
\* than that of response.audio_transcript.done emits a turn.
C7_OneTurnIfText ==
  /\ (Delivering /\ streaming) =>
       Turns(audioTranscriptDone(Cur).out) =
         IF Trim(received) # <<>> THEN <<Trim(received)>> ELSE <<>>
  /\ \A r \in Results : NoTurn(r)

\* Two deltas, a blank and a letter, have come and the turn is the letter.
C7_Witness ==
  /\ Delivering
  /\ streaming
  /\ received = <<SP, Fresh>>
  /\ Turns(audioTranscriptDone(Cur).out) = <<(<<Fresh>>)>>

\* C8: a route_to_npc call in response.done that names the active persona
\* is a no-op: no onNPCChange, no session.update, no acknowledgment, no
\* response.create sent or queued, and the active persona unchanged.
C8_SamePersonaNoOp ==
  Delivering =>
    \A o \in OutputLists :
      (o # <<>> /\ \A k \in 1..Len(o) : o[k] = currentActiveNPC) =>
        LET r == responseDone(Cur, o) IN
          /\ \A k \in 1..Len(r.out) :
               r.out[k].ev \notin {"onNPCChange", "session.update",
                                   "conversation.item.create", "response.create"}
          /\ r.currentActiveNPC = currentActiveNPC
          /\ r.timers = timers

\* A response.done naming the active persona arrives on the open channel
\* while a response is in flight: only the audio level is reported.
C8_Witness ==
  /\ dataChannel = "open"
  /\ isGeneratingResponse
  /\ <<currentActiveNPC>> \in OutputLists
  /\ responseDone(Cur, <<currentActiveNPC>>).out = <<Callback("onAudioLevel", "0")>>
  /\ ~responseDone(Cur, <<currentActiveNPC>>).isGeneratingResponse

\* C9: every session.update the client sends contains the route_to_npc tool
\* if and only if the persona it configures is 'dm'.
C9_ToolsIffNarrator ==
  /\ \A r \in Results : ToolsOnlyForNarrator(r)
  /\ Delivering => ToolsOnlyForNarrator(audioTranscriptDone(Cur))

\* On the open channel the session.update for elara has no tool and the one
\* for dm has it.
C9_Witness ==
  /\ dataChannel = "open"
  /\ LET e == updateSessionInstructions(Cur, "elara").out
         d == updateSessionInstructions(Cur, "dm").out
     IN  /\ At(e, "session.update") = {1} /\ ~e[1].tools
         /\ At(d, "session.update") = {1} /\ d[1].tools

\* C10: after disconnect() returns no microphone track is enabled and no
\* audio-level animation-frame callback is pending.
C10_DisconnectReleases ==
  LET r == disconnect(Cur) IN
    /\ r.mediaStream # "on"
    /\ r.lostTrack # "on"
    /\ r.animationFrame = "null"
    /\ r.orphanFrames = 0

\* The texts of the onError calls in o, in order.
RECURSIVE Errors(_)
Errors(o) ==
  IF o = <<>> THEN <<>>
  ELSE (IF Head(o).ev = "onError" THEN <<Head(o).text>> ELSE <<>>)
         \o Errors(Tail(o))

\* C11 as stated: an inbound error event whose message contains the
\* cancellation warning gives no onError call; an error event with any other
\* message gives exactly one onError call carrying that message.
C11_ErrorCarriesMessage ==
  Delivering =>
    \A m \in ErrorMessages \ {NoMessage} :
      Errors(errorEvent(Cur, m).out) =
        IF IncludesBenign(m) THEN <<>> ELSE <<m>>

\* C11 amended: an error event whose message contains the cancellation
\* warning gives no onError call; any other error event gives exactly one
\* onError call, carrying the message when it is a non-empty string and
\* 'Unknown API error' when the message is absent or empty; the handler
\* makes no other call, sends nothing and changes no field.
C11_ErrorFiltered ==
  Delivering =>
    \A m \in ErrorMessages :
      LET r == errorEvent(Cur, m) IN
        /\ Errors(r.out) =
             IF IncludesBenign(m) THEN <<>>
             ELSE IF m \in {NoMessage, <<>>} THEN <<UnknownError>>
             ELSE <<m>>
        /\ Len(r.out) = Len(Errors(r.out))
        /\ [r EXCEPT !.out = <<>>] = Cur

\* On a delivering channel a message that only contains the warning is
\* filtered and another one is reported once.
C11_Witness ==
  /\ Delivering
  /\ isGeneratingResponse
  /\ errorEvent(Cur, <<Other, Benign>>).out = <<>>
  /\ Errors(errorEvent(Cur, <<Other>>).out) = <<(<<Other>>)>>

\* C12: startListening() returns false when the client is not connected or
\* is already listening, and then sends no event, makes no callback and
\* changes no field (mic gate, isListening and the response in flight
\* included); it returns true only when connected and not listening.
C12_StartListeningRefused ==
  LET r == startListening(Cur) IN
    /\ (~isConnected \/ isListening) => r = Cur
    /\ r.ret => (isConnected /\ ~isListening)

\* startListening() is called while listening on an open channel with a
\* response in flight, and is refused.
C12_Witness ==
  /\ isConnected
  /\ isListening
  /\ isGeneratingResponse
  /\ dataChannel = "open"
  /\ mediaStream = "on"
  /\ ~startListening(Cur).ret

\* C13: stopListening() called while the client is not listening sends
\* nothing (no response.cancel, input_audio_buffer.commit or
\* response.create), makes no callback and changes no field.
C13_StopListeningNoOp ==
  ~isListening => stopListening(Cur) = Cur

\* stopListening() is called while connected on an open channel, not
\* listening, with a response in flight.
C13_Witness ==
  /\ isConnected
  /\ ~isListening
  /\ isGeneratingResponse
  /\ dataChannel = "open"
  /\ mediaStream = "off"
  /\ stopListening(Cur).out = <<>>

\* The fields of r, without what the handler sent and returned.
Fields(r) == [r EXCEPT !.out = <<>>, !.ret = FALSE]

\* C14: at most one connection exists per instance: connect() releases the
\* previous peer connection, data channel and microphone stream before it
\* acquires new ones, so no microphone stream and no data channel that the
\* fields no longer reference is live, and no peer connection is held when
\* connect() creates one.
C14_OneConnection ==
  /\ lostTrack = "none"
  /\ lostChannels = {}
  /\ connectPc = "token" => peerConnection = "null"

\* C15: a second disconnect() right after a first one raises no error and
\* leaves every field as the first call left it.
C15_DisconnectIdempotent ==
  LET a == disconnect(Cur)
      b == disconnect(Fields(a))
  IN  /\ At(a.out, "throw") = {}
      /\ At(b.out, "throw") = {}
      /\ Fields(b) = Fields(a)

\* disconnect() is called while connected and listening with a response in
\* flight and an updateLevel callback queued, and releases what is held.
C15_Witness ==
  /\ isConnected
  /\ isListening
  /\ isGeneratingResponse
  /\ dataChannel = "open"
  /\ animationFrame = "pending"
  /\ Fields(disconnect(Cur)) # Cur
  /\ disconnect(Cur).peerConnection = "null"

\* C16: whenever a data channel that connect() created opens, the active
\* persona is 'dm' afterwards, onNPCChange('dm') is called, and the first
\* session.update sent is the narrator's configuration.
C16_OpenResetsPersona ==
  \A w \in Openings :
    LET r == dataChannelOpen(Cur, w) IN
      /\ r.currentActiveNPC = "dm"
      /\ \E c \in At(r.out, "onNPCChange") : r.out[c].arg = "dm"
      /\ \A u \in At(r.out, "session.update") :
           (\A v \in At(r.out, "session.update") : u <= v) =>
             r.out[u].arg = "dm" /\ r.out[u].instr = "dm"

\* C17: isGeneratingResponse is true in every state between the receipt of
\* a response.created and the receipt of that response's terminal event
\* (response.done, or its cancellation by barge-in), and false otherwise:
\* response.created sets it, response.done and a barge-in clear it, and no
\* other event received while it is set clears it.
C17_FlagUntilTerminal ==
  Delivering =>
    /\ responseCreated(Cur).isGeneratingResponse
    /\ \A o \in OutputLists : ~responseDone(Cur, o).isGeneratingResponse
    /\ CanStartListening => ~startListening(Cur).isGeneratingResponse
    /\ isGeneratingResponse =>
         \A r \in {audioTranscriptDone(Cur)}
                   \cup {audioTranscriptDelta(Cur, d) : d \in DeltasNow}
                   \cup {userTranscript(Cur, x) : x \in {"none", "text"}}
                   \cup {errorEvent(Cur, m) : m \in ErrorMessages} :
           r.isGeneratingResponse

\* The events put on the data channel in o, in order.
RECURSIVE Outbound(_)
Outbound(o) ==
  IF o = <<>> THEN <<>>
  ELSE (IF Head(o).ev \in {"response.cancel", "input_audio_buffer.commit",
                           "input_audio_buffer.clear", "response.create",
                           "session.update", "conversation.item.create"}
        THEN <<Head(o).ev>> ELSE <<>>)
         \o Outbound(Tail(o))

\* stopListening would pass its guard.
CanStopListening == isConnected /\ isListening /\ mediaStream # "null"

\* C18: a successful stopListening() sends response.cancel (only if a
\* response is in flight), then input_audio_buffer.commit, then
\* response.create, and nothing else; isGeneratingResponse is false when the
\* commit is sent; and in what any handler sends every
\* input_audio_buffer.commit is followed at once by a response.create.
C18_StopListeningOrder ==
  /\ CanStopListening =>
       LET r == stopListening(Cur) IN
         /\ Outbound(r.out) =
              (IF isGeneratingResponse THEN <<"response.cancel">> ELSE <<>>)
                \o <<"input_audio_buffer.commit", "response.create">>
         /\ ~r.isGeneratingResponse
  /\ \A r \in Results :
       LET o == Outbound(r.out) IN
         \A k \in 1..Len(o) :
           o[k] = "input_audio_buffer.commit" =>
             k < Len(o) /\ o[k + 1] = "response.create"

\* C19: connect() with an empty credential calls onError exactly once,
\* starts no credential exchange, microphone acquisition or signaling,
\* changes no field (the client stays not connected) and leaves no step of
\* connect() pending.
C19_MissingCredential ==
  (connectPc = "idle" /\ ~apiKey) =>
    LET r == connect(Cur) IN
      /\ Len(r.out) = 1
      /\ r.out[1].ev = "onError"
      /\ Fields(r) = Cur
      /\ ~r.isConnected
      /\ r.connectPc = "idle"

\* connect() is called without a credential and reports it.
C19_Witness ==
  /\ ~apiKey
  /\ connectPc = "idle"
  /\ connect(Cur).out = <<Callback("onError", "api key required")>>

\* C20: when getUserMedia is denied or fails during connect(), onError is
\* called, no data channel is created, no signaling request is made and no
\* step of that connect() stays pending, so no channel of that attempt can
\* open; and no signaling request is made before getUserMedia has succeeded.
C20_MicDeniedAborts ==
  /\ connectPc = "mic" =>
       LET r == connectMic(Cur, FALSE) IN
         /\ At(r.out, "onError") # {}
         /\ At(r.out, "fetch realtime") = {}
         /\ r.dataChannel = dataChannel
         /\ r.lostChannels = lostChannels
         /\ r.isConnected = isConnected
         /\ r.connectPc = "idle"
  /\ \A r \in (IF connectPc = "idle" THEN {connect(Cur)} ELSE {})
               \cup (IF connectPc = "token"
                     THEN {connectToken(Cur, x) :
                             x \in {"ok", "status", "invalid", "network"}}
                     ELSE {})
               \cup (IF connectPc = "mic"
                     THEN {connectMic(Cur, g) : g \in BOOLEAN}
                     ELSE {}) :
       At(r.out, "fetch realtime") = {}

\* getUserMedia of a first connect() is about to end: no channel exists.
C20_Witness ==
  /\ connectPc = "mic"
  /\ dataChannel = "null"
  /\ lostChannels = {}
  /\ ~isConnected
  /\ At(connectMic(Cur, FALSE).out, "onError") = {1}

\* C21: a non-success answer to the credential exchange or to the signaling
\* request ends the attempt: onError is called exactly once with a message
\* that includes the detail the provider supplied, no later step of
\* connect() runs, and the attempt leaves no channel that can open.
C21_NonSuccessAborts ==
  /\ connectPc = "token" =>
       LET r == connectToken(Cur, "status") IN
         /\ Len(Errors(r.out)) = 1
         /\ \E k \in 1..Len(Errors(r.out)[1]) : Errors(r.out)[1][k] = ErrorBody
         /\ Len(r.out) = 1
         /\ r.connectPc = "idle"
         /\ r.isConnected = isConnected
  /\ connectPc = "sdp" =>
       LET r == connectSdp(Cur, "status") IN
         /\ Len(Errors(r.out)) = 1
         /\ \E k \in 1..Len(Errors(r.out)[1]) : Errors(r.out)[1][k] = ErrorBody
         /\ Len(r.out) = 1
         /\ r.connectPc = "idle"
         /\ r.isConnected = isConnected
         /\ r.dataChannel # "ready"

\* What any handler that can run in the current state returns.
AllResults ==
  Results \cup (IF Delivering THEN {audioTranscriptDone(Cur)} ELSE {})

\* The results of the ways a step of the running connect() can fail.
FailedSteps ==
  (IF connectPc = "token"
   THEN {connectToken(Cur, x) : x \in {"status", "invalid", "network"}} ELSE {})
    \cup (IF connectPc = "mic" THEN {connectMic(Cur, FALSE)} ELSE {})
    \cup (IF connectPc = "offer" THEN {connectOffer(Cur, FALSE)} ELSE {})
    \cup (IF connectPc = "sdp"
          THEN {connectSdp(Cur, x) : x \in {"status", "network"}} ELSE {})

\* C22: the client never retries or reconnects on its own: a credential
\* exchange is requested only by an invocation of connect(), once; a
\* signaling request only by the step of a running connect() that follows
\* createOffer; a failed step of connect() and a transport failure call
\* onError, request nothing and leave no step of connect() started.
C22_NoAutoRetry ==
  /\ \A r \in AllResults :
       /\ At(r.out, "fetch sessions") # {} =>
            connectPc = "idle" /\ r = connect(Cur)
       /\ At(r.out, "fetch realtime") # {} => connectPc = "offer"
  /\ connectPc = "idle" =>
       Cardinality(At(connect(Cur).out, "fetch sessions")) <= 1
  /\ \A r \in FailedSteps :
       /\ At(r.out, "onError") # {}
       /\ r.connectPc = "idle"
  /\ peerConnection # "null" =>
       \A w \in {"connection failed", "channel error"} :
         LET r == transportError(Cur, w) IN
           /\ At(r.out, "onError") # {}
           /\ r.connectPc = connectPc

\* The transport fails on a connected client with no connect() running.
C22_Witness ==
  /\ isConnected
  /\ dataChannel = "open"
  /\ connectPc = "idle"
  /\ transportError(Cur, "connection failed").out =
       <<Callback("onError", "connection failed")>>

\* C23: an inbound message that is empty, not text, not valid JSON or
\* without a string type is discarded: no callback is made, no event is
\* sent and no field changes.
C23_MalformedDiscarded ==
  Delivering => \A k \in Malformed : otherMessage(Cur, k) = Cur

\* A malformed message arrives while the client listens and a response
\* with accumulated text is in flight.
C23_Witness ==
  /\ Delivering
  /\ isListening
  /\ isGeneratingResponse
  /\ currentResponseText # <<>>
  /\ otherMessage(Cur, "not JSON").out = <<>>

\* r leaves the listening, generating, accumulated-text, response-id and
\* active-persona fields as they are.
SameConversation(r) ==
  /\ r.isListening = isListening
  /\ r.isGeneratingResponse = isGeneratingResponse
  /\ r.currentResponseText = currentResponseText
  /\ r.currentResponseId = currentResponseId
  /\ r.currentActiveNPC = currentActiveNPC

\* C24: a completion event (response.audio_transcript.done or
\* response.done) received when no response is in flight (none was created,
\* or the one created was cancelled or has completed) emits no
\* conversation turn and leaves the client state unchanged.
C24_CompletionIgnored ==
  (Delivering /\ ~streaming) =>
    /\ NoTurn(audioTranscriptDone(Cur))
    /\ SameConversation(audioTranscriptDone(Cur))
    /\ \A o \in OutputLists :
         /\ NoTurn(responseDone(Cur, o))
         /\ SameConversation(responseDone(Cur, o))

\* C25: while the client is listening the playback element is not playing.
C25_NoPlaybackWhileListening == isListening => audioElement # "playing"

\* C26: for a response that both speaks and routes, the turn of the
\* response, labelled with the persona active before the switch, is emitted
\* before the onNPCChange call and the session.update that its route_to_npc
\* call causes.
C26_TurnBeforeSwitch ==
  (Delivering /\ dataChannel = "open" /\ streaming /\ Trim(received) # <<>>) =>
    \A npc \in (RouteNames \cap Personas) \ {currentActiveNPC} :
      LET a == audioTranscriptDone(Cur)
          b == responseDone(Fields(a), <<npc>>)
          o == a.out \o b.out
      IN  \E m \in At(o, "onMessage") :
          \E c \in At(o, "onNPCChange") :
          \E u \in At(o, "session.update") :
            /\ m < c /\ m < u
            /\ o[m].arg = currentActiveNPC
            /\ o[c].arg = npc /\ o[u].arg = npc

\* C27: a switch to persona P requested from outside while connected sets
\* the active persona to P and sends a session.update for P.
C27_UserSwitchSetsPersona ==
  (isConnected /\ dataChannel = "open") =>
    \A P \in SwitchTargets :
      LET r == updateSessionInstructions(Cur, P) IN
        /\ \E u \in At(r.out, "session.update") : r.out[u].arg = P
        /\ r.currentActiveNPC = P

\* C28: after disconnect() returns, connected, listening and generating are
\* false, the accumulated text is empty, the response id is null and the
\* active persona is the narrator.
C28_DisconnectResets ==
  LET r == disconnect(Cur) IN
    /\ ~r.isConnected
    /\ ~r.isListening
    /\ ~r.isGeneratingResponse
    /\ r.currentResponseText = <<>>
    /\ r.currentResponseId = "null"
    /\ r.currentActiveNPC = "dm"

\* C29 as stated: every level delivered through onAudioLevel while the
\* client is not listening is 0.
C29_ZeroWhenDisarmed ==
  ~isListening =>
    \A r \in AllResults :
      ~r.isListening =>
        \A k \in At(r.out, "onAudioLevel") : r.out[k].arg = "0"

\* C29 amended: a level taken from the microphone is delivered only while
\* the client is listening; every other level delivered is 0, except the
\* fixed level 0.7 that the handler of response.created delivers, listening
\* or not.
C29_MicLevelOnlyWhenListening ==
  \A r \in AllResults :
    \A k \in At(r.out, "onAudioLevel") :
      /\ r.out[k].arg \in {"0", "level", "0.7"}
      /\ r.out[k].arg = "level" => r.isListening
      /\ r.out[k].arg = "0.7" => Delivering /\ r = responseCreated(Cur)

\* Not listening: response.created delivers 0.7, and startListening would
\* deliver a microphone level.
C29_Witness ==
  /\ Delivering
  /\ ~isListening
  /\ CanStartListening
  /\ analyser
  /\ \E k \in At(responseCreated(Cur).out, "onAudioLevel") :
       responseCreated(Cur).out[k].arg = "0.7"
  /\ \E k \in At(startListening(Cur).out, "onAudioLevel") :
       startListening(Cur).out[k].arg = "level"

\* C30: the inbound events input_audio_buffer.speech_started and
\* speech_stopped change no field, make no callback and send no event;
\* input_audio_buffer.commit is sent only by stopListening; every
\* session.update sent has turn_detection null.
C30_ExplicitTurnBoundaries ==
  /\ Delivering =>
       \A k \in Informational : otherMessage(Cur, k) = Cur
  /\ \A r \in AllResults :
       /\ At(r.out, "input_audio_buffer.commit") # {} => r = stopListening(Cur)
       /\ \A u \in At(r.out, "session.update") : r.out[u].text = <<"null">>

\* While listening on an open channel stopListening sends the commit, a
\* speech_stopped event is only logged, and a session.update can be sent.
C30_Witness ==
  /\ CanStopListening
  /\ dataChannel = "open"
  /\ At(stopListening(Cur).out, "input_audio_buffer.commit") # {}
  /\ otherMessage(Cur, "input_audio_buffer.speech_stopped").out = <<>>
  /\ At(updateSessionInstructions(Cur, "dm").out, "session.update") = {1}

EventTypes ==
  {"session.update", "response.cancel", "response.create",
   "input_audio_buffer.clear", "input_audio_buffer.commit",
   "conversation.item.create"}

\* C33: while the data channel is absent or not open sendEvent changes
\* nothing: no event is sent or kept for later, onError is not called and no
\* field changes; so updateSessionInstructions, startListening and
\* stopListening send nothing and report no error on such a channel, and the
\* delayed response.create of a persona switch is dropped the same way, also
\* after disconnect().
C33_DroppedSilently ==
  /\ dataChannel # "open" =>
       /\ \A t \in EventTypes : sendEvent(Cur, Event(Cur, t)) = Cur
       /\ timerFire(Cur) = Cur
       /\ updateSessionInstructions(Cur, "dm") = Cur
       /\ \A r \in {startListening(Cur), stopListening(Cur)} :
            Outbound(r.out) = <<>> /\ Errors(r.out) = <<>>
  /\ LET d == Fields(disconnect(Cur))
     IN  d.dataChannel = "null" /\ timerFire(d) = d

\* Listening, with a response in progress, on a channel that is not open:
\* stopListening ends the turn and nothing goes out, and the timer's callback
\* sends nothing, before disconnect() and after it.
C33_Witness ==
  /\ CanStopListening
  /\ isGeneratingResponse
  /\ dataChannel \notin {"open", "null"}
  /\ ~stopListening(Cur).isListening
  /\ Outbound(stopListening(Cur).out) = <<>>
  /\ timerFire(Cur) = Cur
  /\ timerFire(Fields(disconnect(Cur))).out = <<>>

\* r holds no microphone stream, peer connection, data channel or playback
\* element.
HoldsNothing(r) ==
  /\ r.mediaStream = "null"
  /\ r.peerConnection = "null"
  /\ r.dataChannel = "null"
  /\ r.audioElement = "null"

\* C34: when disconnect() is called while connect() is suspended at one of
\* its awaits, the step with which connect() resumes leaves the instance
\* holding no microphone stream, peer connection, data channel or playback
\* element, not connected, and with no further step of connect() to come.
C34_DisconnectDuringConnect ==
  LET d == Fields(disconnect(Cur))
      resumed ==
        (IF connectPc = "token"
         THEN {connectToken(d, x) : x \in {"ok", "status", "invalid", "network"}}
         ELSE {})
          \cup (IF connectPc = "mic" THEN {connectMic(d, g) : g \in BOOLEAN} ELSE {})
          \cup (IF connectPc = "offer" THEN {connectOffer(d, g) : g \in BOOLEAN} ELSE {})
          \cup (IF connectPc = "sdp"
                THEN {connectSdp(d, x) : x \in {"ok", "status", "network"}}
                ELSE {})
  IN  \A r \in resumed :
        HoldsNothing(r) /\ ~r.isConnected /\ r.connectPc = "idle"

C36_OneTranscriptPerUtterance ==
  Delivering =>
    LET a == itemCreated(Cur, "text")
        b == transcriptionCompleted(Fields(a), "text")
    IN  Cardinality(At(a.out \o b.out, "onTranscript")) <= 1

\* C37: after a step of connect() fails, the instance holds no microphone
\* stream, no peer connection and no playback element.
C37_FailureReleases ==
  \A r \in FailedSteps :
    /\ r.mediaStream = "null"
    /\ r.peerConnection = "null"
    /\ r.audioElement = "null"

C39_FailedNotConnected ==
  peerConnection # "null" =>
    LET r == Fields(transportError(Cur, "connection failed"))
    IN  /\ ~getConnectionState(r).isConnected
        /\ ~startListening(r).ret

====
